---- MODULE Spec2Model ----
(***************************************************************************)
(* A model of the Kinect-Node capture pipeline: the BufferPool             *)
(* (src/services/buffer-pool.js), the DepthSensor with its worker channel  *)
(* (src/services/sensors/depth-sensor.js, base-sensor.js, base-worker) and *)
(* the MultiSourceReader frame synchronizer.                               *)
(*                                                                         *)
(* Buffers are JavaScript objects compared by identity; the model names    *)
(* them by small integers.  pool.create() yields an object distinct from   *)
(* every buffer the pool holds, modelled as the least identifier that is   *)
(* in no free list and no in-use set.  Timestamps (pool.lastAccessed,      *)
(* event timestamps) are not part of the pool state modelled here.         *)
(***************************************************************************)
EXTENDS Integers, Sequences, FiniteSets, TLC

\* ------------------------------------------------------------------ bounds

\* Largest maxPoolSize a configuration or a resize() may name.
MaxPool == 6
\* Largest maxQueueSize of a depth sensor configuration.
MaxQueue == 2
\* Cap of the driver frames a sensor accepts or counts as missed (guard of
\* the driver-frame handler).
MaxFrames == 3
\* Latest wall-clock time of a driver emission.
MaxTime == 4
\* Cap of syncAttempts (guard of the multi-source emission).
MaxAttempts == 3
\* Cap of the multi-source listeners a reader registers (guard of start()).
MaxListeners == 2
\* config.worker.maxRestarts of the sensors.
MaxRestarts == 2

\* Most messages in flight between a sensor and its worker, both ways.
MaxInFlight == 2
\* Number of connections the service accepts.
MaxConns == 2
\* Cap of the messages and events recorded per connection.
MaxLog == 5
\* Cap of hits + misses + released (guards of acquire and release): the
\* number of successful acquires and releases since construction or clear().
MaxCalls == 4
\* config.network.websocket.reconnect.delay, in ticks.
ReconnectDelay == 2

\* ------------------------------------------------------------------ constants of the program

Kinds == <<"depth", "color", "infrared", "body">>
KindSet == {Kinds[i] : i \in 1..Len(Kinds)}
\* A type string that names no pool.
InvalidKind == "invalid"

\* null / undefined buffer reference.
NoBuf == 0

Max(a, b) == IF a >= b THEN a ELSE b
Min(a, b) == IF a <= b THEN a ELSE b

\* Buffer identities: enough for the largest pool plus one object that is
\* never pooled (a buffer the caller allocated itself).
BufIds == 1..(Max(4, MaxPool) + 1)
\* The buffer that is never pooled.
Foreign == Max(4, MaxPool) + 1

SeqToSet(s) == {s[i] : i \in 1..Len(s)}

VARIABLES
    pool,       \* the BufferPool instance: #pools, #stats, #maxPoolSize, ...
    poolOut,    \* outcome of the last public BufferPool call (return, throw, events)
    sensor,     \* the DepthSensor instance (BaseSensor fields and its own)
    sensorOut,  \* outcome of the last DepthSensor handler (events, throw)
    worker,     \* the worker thread's BaseWorker state
    toWorker,   \* messages posted to the worker, not yet received by it
    fromWorker, \* replies posted by the worker, not yet received by the sensor
    sync,       \* the MultiSourceReader instance
    syncOut,    \* what the last MultiSourceReader call or listener run emitted
    emission,   \* the driver's 'multiSourceFrame' emission being dispatched
    now,        \* Date.now()
    wss,        \* the WebSocketService instance: #wss, #server, #clients
    conn,       \* the WebSocket connections the service has accepted
    client      \* a KinectClient instance and its socket

poolVars == <<pool, poolOut>>
depthVars == <<sensor, sensorOut, worker, toWorker, fromWorker>>
syncVars == <<sync, syncOut, emission, now>>
wsVars == <<wss, conn, client>>
vars == <<pool, poolOut, sensor, sensorOut, worker, toWorker, fromWorker,
          sync, syncOut, emission, now, wss, conn, client>>

\* ------------------------------------------------------------------ BufferPool

\* Every buffer object the pool currently references (free or in use).
Pooled(p) ==
    UNION {SeqToSet(p.buffers[k]) \cup p.inUse[k] : k \in KindSet}

\* pool.create(): a new object, distinct from every pooled buffer.
Create(p) ==
    CHOOSE b \in BufIds \ Pooled(p) : \A c \in BufIds \ Pooled(p) : b <= c

EmptyStats ==
    [hits |-> 0, misses |-> 0, created |-> 0, released |-> 0,
     poolSize |-> 0, maxUsed |-> 0, lastResized |-> FALSE]

\* One iteration of a pre-allocation loop: pool.buffers.push(pool.create());
\* created++; poolSize++.
PushCreated(p, type) ==
    [p EXCEPT !.buffers[type] = Append(@, Create(p)),
              !.stats.created = @ + 1,
              !.stats.poolSize = @ + 1]

RECURSIVE PushCreatedTimes(_, _, _)
PushCreatedTimes(p, type, n) ==
    IF n <= 0 THEN p ELSE PushCreatedTimes(PushCreated(p, type), type, n - 1)

\* #initializePools: every kind gets a new pool object holding initialSize
\* fresh buffers and an empty in-use set.
RECURSIVE InitializeFrom(_, _)
InitializeFrom(p, i) ==
    IF i > Len(Kinds) THEN p
    ELSE LET fresh == [p EXCEPT !.buffers[Kinds[i]] = <<>>,
                                !.inUse[Kinds[i]] = {}]
         IN InitializeFrom(PushCreatedTimes(fresh, Kinds[i], p.initialSize), i + 1)

InitializePools(p) == InitializeFrom(p, 1)

\* constructor(config): #validateAndSetConfig then #initializePools.  Only
\* configurations the constructor accepts (initialSize <= maxPoolSize) yield
\* a pool.
NewPool(maxPoolSize, initialSize, expandSize) ==
    InitializePools(
        [buffers |-> [k \in KindSet |-> <<>>],
         inUse |-> [k \in KindSet |-> {}],
         stats |-> EmptyStats,
         maxPoolSize |-> maxPoolSize,
         initialSize |-> initialSize,
         expandSize |-> expandSize])

\* <<maxPoolSize, initialSize, expandSize>>: one buffer per kind initially,
\* growth by one or by two; a cap below, at and above the four initial
\* buffers.
ValidConfigs ==
    {c \in {2, 4, MaxPool} \X {1} \X {1, 2} : c[2] <= c[1]}

\* A call's outcome: the pool after it, what it returned, what it threw and
\* the events it emitted.
Outcome(p, ret, threw, events) ==
    [pool |-> p, ret |-> ret, threw |-> threw, events |-> events]

\* Mutant of GetBufferFromPool: reads the top of the free list without
\* popping it.
GetBufferFromPoolPeek(p, type) ==
    IF Len(p.buffers[type]) > 0
    THEN Outcome([p EXCEPT !.stats.hits = @ + 1],
                 p.buffers[type][Len(p.buffers[type])], "none", <<>>)
    ELSE Outcome(p, NoBuf, "none", <<>>)

\* #getBufferFromPool: pop the free list (LIFO) and count a hit.
GetBufferFromPool(p, type) ==
    IF Len(p.buffers[type]) > 0
    THEN Outcome([p EXCEPT !.stats.hits = @ + 1,
                           !.buffers[type] = SubSeq(@, 1, Len(@) - 1)],
                 p.buffers[type][Len(p.buffers[type])], "none", <<>>)
    ELSE Outcome(p, NoBuf, "none", <<>>)

\* Mutant of ExpandPoolAndGetBuffer: the cap test is > instead of >=, so the
\* pool grows one buffer past the cap.
ExpandPastCap(p, type) ==
    IF p.stats.poolSize > p.maxPoolSize
    THEN Outcome(p, NoBuf, "none",
                 <<[name |-> "poolExhausted", type |-> type,
                    poolSize |-> p.stats.poolSize,
                    inUse |-> Cardinality(p.inUse[type])]>>)
    ELSE Outcome([p EXCEPT !.stats.misses = @ + 1,
                           !.stats.created = @ + 1,
                           !.stats.poolSize = @ + 1],
                 Create(p), "none", <<>>)

\* #expandPoolAndGetBuffer: refuse at the cap, else create the returned
\* buffer plus min(expandSize - 1, maxPoolSize - poolSize) spare ones.
ExpandPoolAndGetBuffer(p, type) ==
    IF p.stats.poolSize >= p.maxPoolSize
    THEN Outcome(p, NoBuf, "none",
                 <<[name |-> "poolExhausted", type |-> type,
                    poolSize |-> p.stats.poolSize,
                    inUse |-> Cardinality(p.inUse[type])]>>)
    ELSE LET buffer == Create(p)
             \* the returned buffer is referenced only by the caller until
             \* acquire adds it to inUse; keep it out of Create's reach
             held == [p EXCEPT !.inUse[type] = @ \cup {buffer},
                               !.stats.misses = @ + 1,
                               !.stats.created = @ + 1,
                               !.stats.poolSize = @ + 1]
             buffersToAdd == Min(p.expandSize - 1,
                                 p.maxPoolSize - held.stats.poolSize)
             grown == PushCreatedTimes(held, type, buffersToAdd)
         IN Outcome([grown EXCEPT !.inUse[type] = @ \ {buffer}],
                    buffer, "none", <<>>)

\* acquire(type)
Acquire(p, type) ==
    IF type \notin KindSet
    THEN Outcome(p, NoBuf, "unknownType", <<>>)
    ELSE LET got == GetBufferFromPool(p, type)
             res == IF got.ret # NoBuf THEN got
                    ELSE ExpandPoolAndGetBuffer(got.pool, type)
         IN IF res.ret # NoBuf
            THEN Outcome([res.pool EXCEPT
                              !.inUse[type] = @ \cup {res.ret},
                              !.stats.maxUsed =
                                  Max(@, Cardinality(res.pool.inUse[type]
                                                     \cup {res.ret}))],
                         res.ret, "none", res.events)
            ELSE res

\* Mutant of Release: accepts a buffer that is in use for any kind.
ReleaseAnyKind(p, type, buffer) ==
    IF type \notin KindSet
    THEN Outcome(p, NoBuf, "unknownType", <<>>)
    ELSE IF buffer = NoBuf \/ \A k \in KindSet : buffer \notin p.inUse[k]
    THEN Outcome(p, NoBuf, "untracked", <<>>)
    ELSE Outcome([p EXCEPT !.buffers[type] = Append(@, buffer),
                           !.inUse[type] = @ \ {buffer},
                           !.stats.released = @ + 1],
                 NoBuf, "none", <<>>)

\* release(type, buffer)
Release(p, type, buffer) ==
    IF type \notin KindSet
    THEN Outcome(p, NoBuf, "unknownType", <<>>)
    ELSE IF buffer = NoBuf \/ buffer \notin p.inUse[type]
    THEN Outcome(p, NoBuf, "untracked", <<>>)
    ELSE LET q == [p EXCEPT !.buffers[type] = Append(@, buffer),
                            !.inUse[type] = @ \ {buffer},
                            !.stats.released = @ + 1]
         IN Outcome(q, NoBuf, "none",
                    <<[name |-> "bufferReleased", type |-> type,
                       poolSize |-> Len(q.buffers[type]),
                       inUse |-> Cardinality(q.inUse[type])]>>)

\* clear(): the loop empties one kind after the other and throws at the
\* first kind with a buffer in use; only a completed loop resets the
\* statistics and re-initializes.
RECURSIVE ClearFrom(_, _)
ClearFrom(p, i) ==
    IF i > Len(Kinds)
    THEN Outcome(InitializePools([p EXCEPT !.stats = EmptyStats]),
                 NoBuf, "none", <<>>)
    ELSE IF Cardinality(p.inUse[Kinds[i]]) > 0
    THEN Outcome(p, NoBuf, "inUse", <<>>)
    ELSE ClearFrom([p EXCEPT !.buffers[Kinds[i]] = <<>>,
                             !.inUse[Kinds[i]] = {}], i + 1)

Clear(p) == ClearFrom(p, 1)

\* #shrinkPools: per kind, pop free buffers while that kind alone holds
\* more than maxPoolSize buffers.
RECURSIVE ShrinkOne(_, _)
ShrinkOne(p, type) ==
    IF Len(p.buffers[type]) + Cardinality(p.inUse[type]) > p.maxPoolSize
       /\ Len(p.buffers[type]) > 0
    THEN ShrinkOne([p EXCEPT !.buffers[type] = SubSeq(@, 1, Len(@) - 1),
                             !.stats.poolSize = @ - 1], type)
    ELSE p

RECURSIVE ShrinkFrom(_, _)
ShrinkFrom(p, i) ==
    IF i > Len(Kinds) THEN p ELSE ShrinkFrom(ShrinkOne(p, Kinds[i]), i + 1)

ShrinkPools(p) == ShrinkFrom(p, 1)

RECURSIVE SumInUse(_, _)
SumInUse(p, i) ==
    IF i > Len(Kinds) THEN 0
    ELSE Cardinality(p.inUse[Kinds[i]]) + SumInUse(p, i + 1)

\* Mutant of Resize: the new cap is stored before the in-use test.
ResizeEager(p, newSize) ==
    IF newSize < 1
    THEN Outcome(p, NoBuf, "notPositive", <<>>)
    ELSE IF SumInUse(p, 1) > newSize
    THEN Outcome([p EXCEPT !.maxPoolSize = newSize], NoBuf, "tooSmall", <<>>)
    ELSE LET q == ShrinkPools([p EXCEPT !.maxPoolSize = newSize])
             r == [q EXCEPT !.stats.lastResized = TRUE]
         IN Outcome(r, NoBuf, "none",
                    <<[name |-> "poolResized", maxPoolSize |-> r.maxPoolSize,
                       currentSize |-> r.stats.poolSize]>>)

\* resize(newSize)
Resize(p, newSize) ==
    IF newSize < 1
    THEN Outcome(p, NoBuf, "notPositive", <<>>)
    ELSE IF SumInUse(p, 1) > newSize
    THEN Outcome(p, NoBuf, "tooSmall", <<>>)
    ELSE LET q == ShrinkPools([p EXCEPT !.maxPoolSize = newSize])
             r == [q EXCEPT !.stats.lastResized = TRUE]
         IN Outcome(r, NoBuf, "none",
                    <<[name |-> "poolResized", maxPoolSize |-> r.maxPoolSize,
                       currentSize |-> r.stats.poolSize]>>)

\* getStats(): the per-kind figures and the global poolSize.
Available(p, k) == Len(p.buffers[k])
InUseCount(p, k) == Cardinality(p.inUse[k])
RECURSIVE TotalFrom(_, _)
TotalFrom(p, i) ==
    IF i > Len(Kinds) THEN 0
    ELSE Available(p, Kinds[i]) + InUseCount(p, Kinds[i]) + TotalFrom(p, i + 1)
TotalBuffers(p) == TotalFrom(p, 1)

\* ------------------------------------------------------------------ pool actions

Call(op, type, arg, out) ==
    [op |-> op, type |-> type, arg |-> arg, ret |-> out.ret,
     threw |-> out.threw, events |-> out.events]

Calls(p) == p.stats.hits + p.stats.misses + p.stats.released

\* An empty slot of the synchronizer's frame buffer.
None == -1

\* MultiSourceReader constructor: #initializeConfiguration with the enabled
\* kinds as #requiredFrameTypes; the runtime state and the statistics
\* (all but #stats.frameDelays, which no method reads back).
NewReader(required, syncWindow, dropAfter, bufferSize) ==
    [required |-> required,
     syncWindow |-> syncWindow,
     dropAfter |-> dropAfter,
     bufferSize |-> bufferSize,
     running |-> FALSE,
     stopping |-> 0,           \* stop() calls suspended at await closeMultiSourceReader()
     listeners |-> 0,          \* 'multiSourceFrame' listeners registered on the driver
     frameBuffer |-> [k \in KindSet |-> None],
     lastSyncTime |-> 0,
     syncedFrames |-> 0,
     droppedFrames |-> 0,
     lastSyncDelay |-> 0,
     maxSyncDelay |-> 0,
     bufferOverflows |-> 0,
     syncAttempts |-> 0]

NoSync == [op |-> "new", events |-> <<>>]

\* No emission is being dispatched; pending: listeners still to be called.
NoPending == [frame |-> {}, pending |-> 0]

SyncIdle ==
    /\ sync = NewReader({"depth"}, 1, 1, 1)
    /\ syncOut = NoSync /\ emission = NoPending
    /\ now = 0

\* KinectClient constructor.  socket is the readyState of this.#ws ("none":
\* no socket yet); sockets counts the WebSocket objects connect() has
\* created; timer is the reconnect timeout (pending, and the time left
\* until it fires); requested records that disconnect() has been called.
NewClient ==
    [socket |-> "none", sockets |-> 0, connected |-> FALSE,
     timer |-> [pending |-> FALSE, wait |-> 0], requested |-> FALSE]

\* Connection slots.
Conns == 1..MaxConns

\* WebSocketService.#CLOSE_CODES; NoCode: close() was not called by the service.
NoCode == 0
NORMAL == 1000
TIMEOUT == 1002
ABNORMAL == 1006

\* WebSocketService constructor: no server yet, no clients.
\* phase: "stopped" (#wss and #server null), "running" (#wss set),
\* "closingClients" (stop() awaits the clients' close events, #wss set),
\* "closingServer" (#wss null, stop() awaits #server.close()).
NewService == [phase |-> "stopped", clients |-> {}, awaited |-> {}]

\* A connection slot before the connection is made.  state is ws.readyState
\* ("none": not connected yet); code: the code the service passed to
\* ws.close(); timer: identificationTimeout is pending; clientInfo:
\* ws.clientInfo is set; log: the messages sent on the connection and the
\* service events about it, in order.
NoConn == [state |-> "none", code |-> NoCode, timer |-> FALSE,
           clientInfo |-> FALSE, log |-> <<>>]

WsIdle ==
    /\ wss = NewService
    /\ conn = [c \in Conns |-> NoConn]
    /\ client = NewClient

NoCall ==
    [op |-> "new", type |-> InvalidKind, arg |-> 0, ret |-> NoBuf,
     threw |-> "none", events |-> <<>>]

\* The constructor of a sensor of the given kind (BaseSensor constructor,
\* then the subclass's fields; frameQueue, currentBuffer and maxQueueSize
\* are DepthSensor's).
NewSensor(kind, maxQueueSize, maxWorkerRestarts) ==
    [kind |-> kind,
     isRunning |-> FALSE,
     starting |-> FALSE,       \* start() is suspended at await _initializeReader()
     stopping |-> FALSE,       \* stop() is suspended at await _cleanupResources()
     restarting |-> 0,         \* _handleWorkerError calls suspended at await terminate()
     readerOpen |-> FALSE,     \* the driver's stream of this kind is open
     listeners |-> 0,          \* frame listeners registered on the driver
     hasWorker |-> FALSE,      \* this.worker !== null
     healthCheck |-> FALSE,    \* this.healthCheckInterval is set and running
     workerRestartAttempts |-> 0,
     maxWorkerRestarts |-> maxWorkerRestarts,
     frameCount |-> 0,
     frameQueue |-> <<>>,
     currentBuffer |-> NoBuf,
     missedFrames |-> 0,
     maxQueueSize |-> maxQueueSize]

NoHandler ==
    [op |-> "new", valid |-> TRUE, overflow |-> FALSE, msg |-> "none",
     buf |-> NoBuf, events |-> <<>>, threw |-> FALSE]

\* new Worker(...): the thread is up and runs the BaseWorker constructor.
\* up: the thread has neither crashed nor been terminated; hung: it no
\* longer takes messages from its port.
NewWorker == [isProcessing |-> FALSE, current |-> NoBuf, up |-> TRUE, hung |-> FALSE]

DepthIdle ==
    /\ sensor = NewSensor("depth", 1, 1)
    /\ sensorOut = NoHandler
    /\ worker = NewWorker
    /\ toWorker = <<>>
    /\ fromWorker = <<>>

Init ==
    /\ \E c \in ValidConfigs : pool = NewPool(c[1], c[2], c[3])
    /\ poolOut = NoCall
    /\ DepthIdle
    /\ SyncIdle
    /\ WsIdle

PoolAcquire ==
    \E type \in KindSet \cup {InvalidKind} :
        /\ Calls(pool) < MaxCalls
        /\ LET out == Acquire(pool, type)
           IN /\ pool' = out.pool
              /\ poolOut' = Call("acquire", type, NoBuf, out)
        /\ UNCHANGED <<depthVars, syncVars, wsVars>>

\* The buffers a caller may hand to release(type, .): every buffer in use
\* (for this kind or another), the buffer released last (top of the free
\* list), a buffer the pool never created, and null.
ReleaseArgs(p, type) ==
    UNION {p.inUse[k] : k \in KindSet}
    \cup (IF type \in KindSet /\ Len(p.buffers[type]) > 0
          THEN {p.buffers[type][Len(p.buffers[type])]} ELSE {})
    \cup {Foreign, NoBuf}

PoolRelease ==
    \E type \in KindSet \cup {InvalidKind} :
      \E buffer \in ReleaseArgs(pool, type) :
        /\ Calls(pool) < MaxCalls
        /\ LET out == Release(pool, type, buffer)
           IN /\ pool' = out.pool
              /\ poolOut' = Call("release", type, buffer, out)
        /\ UNCHANGED <<depthVars, syncVars, wsVars>>

PoolResize ==
    \E newSize \in {0, 1, 2, MaxPool} :
        LET out == Resize(pool, newSize)
        IN /\ pool' = out.pool
           /\ poolOut' = Call("resize", InvalidKind, newSize, out)
           /\ UNCHANGED <<depthVars, syncVars, wsVars>>

PoolClear ==
    LET out == Clear(pool)
    IN /\ pool' = out.pool
       /\ poolOut' = Call("clear", InvalidKind, 0, out)
       /\ UNCHANGED <<depthVars, syncVars, wsVars>>

Next == PoolAcquire \/ PoolRelease \/ PoolResize \/ PoolClear

Spec == Init /\ [][Next]_vars

\* The pool without clear(): acquire, release and resize in any sequence.
NextNoClear == PoolAcquire \/ PoolRelease \/ PoolResize

SpecNoClear == Init /\ [][NextNoClear]_vars

\* ------------------------------------------------------------------ DepthSensor and its worker

\* BaseSensor.acquireBuffer / releaseBuffer: the sensor's access to the
\* shared BufferPool.
AcquireBuffer(p, type) == Acquire(p, type)
ReleaseBuffer(p, type, buffer) == Release(p, type, buffer)

\* What a handler leaves behind: the sensor, the pool, the messages it
\* posted and what an observer saw (events emitted, an exception that
\* escaped the handler).
Handled(s, p, posted, events, threw) ==
    [sensor |-> s, pool |-> p, posted |-> posted, events |-> events,
     threw |-> threw]

ErrorEvent == [name |-> "error"]

\* The catch block of _processFrame: log, emit error, release and forget
\* currentBuffer.  A throw of releaseBuffer escapes the handler before
\* currentBuffer is reset.
ProcessFrameCatch(s, p) ==
    IF s.currentBuffer = NoBuf
    THEN Handled(s, p, <<>>, <<ErrorEvent>>, FALSE)
    ELSE LET rel == ReleaseBuffer(p, "depth", s.currentBuffer)
         IN IF rel.threw # "none"
            THEN Handled(s, p, <<>>, <<ErrorEvent>>, TRUE)
            ELSE Handled([s EXCEPT !.currentBuffer = NoBuf], rel.pool,
                         <<>>, <<ErrorEvent>>, FALSE)

\* The backpressure branch of _processFrame: drop and release the oldest
\* queued frame, count a missed frame, return.
ProcessFrameOverflow(s, p) ==
    LET oldFrame == Head(s.frameQueue)
        shifted == [s EXCEPT !.frameQueue = Tail(@)]
        rel == ReleaseBuffer(p, "depth", oldFrame)
    IN IF rel.threw # "none"
       THEN ProcessFrameCatch(shifted, p)
       ELSE Handled([shifted EXCEPT !.missedFrames = @ + 1], rel.pool,
                    <<>>, <<>>, FALSE)

\* The acquire branch of _processFrame: take a buffer, enqueue it and post
\* it to the worker.
ProcessFrameAccept(s, p) ==
    LET acq == AcquireBuffer(p, "depth")
        got == [s EXCEPT !.currentBuffer = acq.ret]
    IN IF acq.ret = NoBuf
       THEN Handled(got, acq.pool, <<>>, <<>>, FALSE)
       ELSE LET queued == [got EXCEPT !.frameQueue = Append(@, acq.ret)]
            IN IF ~s.hasWorker
               THEN ProcessFrameCatch(queued, acq.pool)
               ELSE Handled(queued, acq.pool,
                            <<[type |-> "processFrame", buffer |-> acq.ret]>>,
                            <<>>, FALSE)

\* _processFrame(depthFrame); valid: depthFrame.length is width * height * 2.
ProcessFrame(s, p, valid) ==
    IF ~s.isRunning THEN Handled(s, p, <<>>, <<>>, FALSE)
    ELSE IF ~valid THEN ProcessFrameCatch(s, p)
    ELSE IF Len(s.frameQueue) >= s.maxQueueSize THEN ProcessFrameOverflow(s, p)
    ELSE ProcessFrameAccept(s, p)

\* updateMetrics: frameCount++, reset to 0 when a second has passed
\* (windowOver).
UpdateMetrics(s, windowOver) ==
    [s EXCEPT !.frameCount = IF windowOver THEN 0 ELSE @ + 1]

\* _handleWorkerMessage(message): only type 'frameProcessed' is handled.
HandleWorkerMessage(s, p, type, windowOver) ==
    IF type # "frameProcessed"
    THEN Handled(s, p, <<>>, <<>>, FALSE)
    ELSE LET frame == [name |-> "frame", data |-> s.currentBuffer,
                       frameNumber |-> s.frameCount]
         IN IF s.currentBuffer = NoBuf
            THEN Handled(UpdateMetrics(s, windowOver), p, <<>>, <<frame>>, FALSE)
            ELSE LET rel == ReleaseBuffer(p, "depth", s.currentBuffer)
                 IN IF rel.threw # "none"
                    THEN Handled(s, p, <<>>, <<frame>>, TRUE)
                    ELSE Handled(UpdateMetrics([s EXCEPT !.currentBuffer = NoBuf],
                                               windowOver),
                                 rel.pool, <<>>, <<frame>>, FALSE)

\* The shapes of a worker reply as the sensor sees them.  An artifact is
\* tagged 'frameProcessed' (what the sensor's switch and the tests expect)
\* or carries no type ({data, processTime}, what BaseWorker posts); an error
\* reply is {error, stack} and has no type either.
ReplyShapes ==
    {[kind |-> "artifact", type |-> "frameProcessed"],
     [kind |-> "artifact", type |-> "none"],
     [kind |-> "error", type |-> "none"]}

\* Mutant of WorkerOnMessage: a frame is taken whatever isProcessing says.
WorkerOnMessageAlways(w, m) ==
    [w EXCEPT !.isProcessing = TRUE, !.current = m.buffer]

\* BaseWorker's message handler up to the await: a frame that arrives while
\* isProcessing is set is skipped.
WorkerOnMessage(w, m) ==
    IF w.isProcessing THEN w
    ELSE [w EXCEPT !.isProcessing = TRUE, !.current = m.buffer]

\* The answer to a health check.
HealthReply == [kind |-> "health", type |-> "healthCheck", buf |-> NoBuf]

\* Mutant of WorkerAnswers: a busy worker does not answer health checks.
WorkerAnswersIdle(w, m) ==
    IF m.type = "healthCheck" /\ ~w.isProcessing THEN <<HealthReply>> ELSE <<>>

\* What BaseWorker's message handler posts before its await: the answer to
\* a health check, nothing for a frame.
WorkerAnswers(w, m) ==
    IF m.type = "healthCheck" THEN <<HealthReply>> ELSE <<>>

\* _handleWorkerMessage of the sensor's class.  ColorSensor and IRSensor
\* take every message for a processed frame; BodySensor and DepthSensor
\* switch on message.type.
SensorHandleWorkerMessage(s, p, type, windowOver) ==
    IF s.kind = "depth" THEN HandleWorkerMessage(s, p, type, windowOver)
    ELSE IF s.kind = "body" /\ type # "frameProcessed"
    THEN Handled(s, p, <<>>, <<>>, FALSE)
    ELSE Handled(UpdateMetrics([s EXCEPT !.frameCount = @ + 1], windowOver), p,
                 <<>>,
                 <<[name |-> "frame", data |-> NoBuf, frameNumber |-> s.frameCount]>>,
                 FALSE)

\* The frame listener a sensor registers on the driver: _processFrame for
\* depth; the other kinds post the frame if there is a worker and the
\* sensor is running.
FrameListener(s, p, valid) ==
    IF s.kind = "depth" THEN ProcessFrame(s, p, valid)
    ELSE IF s.hasWorker /\ s.isRunning
    THEN Handled(s, p, <<[type |-> "frame", buffer |-> NoBuf]>>, <<>>, FALSE)
    ELSE Handled(s, p, <<>>, <<>>, FALSE)

\* What two handlers run one after the other leave behind.
Merged(a, b) ==
    Handled(b.sensor, b.pool, a.posted \o b.posted, a.events \o b.events, b.threw)

\* The next registered listener runs on what the earlier ones (h) left.
NextListener(h, valid) == Merged(h, FrameListener(h.sensor, h.pool, valid))

\* kinect.emit(...): the n registered listeners run one after the other; a
\* listener that throws ends the emission.
RECURSIVE EmitFrame(_, _, _)
EmitFrame(h, valid, n) ==
    IF n <= 0 \/ h.threw THEN h
    ELSE EmitFrame(NextListener(h, valid), valid, n - 1)

\* _initializeReader throws: ColorSensor and IRSensor test what the driver's
\* open call returned, DepthSensor and BodySensor only await it.
InitializeReaderThrows(kind, opened) ==
    kind \in {"color", "infrared"} /\ ~opened

\* _initializeWorker: new Worker, _setupWorkerEventHandlers,
\* _startWorkerHealthCheck.
InitializeWorker(s) == [s EXCEPT !.hasWorker = TRUE, !.healthCheck = TRUE]

\* The queued buffers are released, oldest first; a release that throws
\* ends the drain.
RECURSIVE DrainQueue(_, _)
DrainQueue(s, p) ==
    IF s.frameQueue = <<>> THEN Handled(s, p, <<>>, <<>>, FALSE)
    ELSE LET rel == ReleaseBuffer(p, "depth", Head(s.frameQueue))
             shifted == [s EXCEPT !.frameQueue = Tail(@)]
         IN IF rel.threw # "none" THEN Handled(shifted, p, <<>>, <<>>, TRUE)
            ELSE DrainQueue(shifted, rel.pool)

\* BaseSensor._cleanupResources, which stop() and IRSensor call: close the
\* driver stream and remove its frame listeners, drain and release the
\* queued buffers, terminate the worker.
BaseCleanupResources(s, p) ==
    LET drained == DrainQueue([s EXCEPT !.readerOpen = FALSE, !.listeners = 0], p)
    IN IF drained.threw THEN drained
       ELSE Handled([drained.sensor EXCEPT !.currentBuffer = NoBuf,
                                           !.hasWorker = FALSE],
                    drained.pool, <<>>, <<>>, FALSE)

\* _cleanupResources of the sensor's class: ColorSensor and BodySensor
\* remove the frame listeners, close the reader and terminate the worker;
\* IRSensor removes the listeners, closes the reader and calls the base;
\* DepthSensor inherits the base.
CleanupResources(s, p) ==
    IF s.kind \in {"color", "body"}
    THEN Handled([s EXCEPT !.listeners = 0, !.readerOpen = FALSE,
                           !.hasWorker = FALSE], p, <<>>, <<>>, FALSE)
    ELSE IF s.kind = "infrared"
    THEN BaseCleanupResources([s EXCEPT !.listeners = 0, !.readerOpen = FALSE], p)
    ELSE BaseCleanupResources(s, p)

\* Mutant of HandleWorkerError: the cap is tested after the increment.
HandleWorkerErrorLate(s) ==
    IF s.workerRestartAttempts > s.maxWorkerRestarts
    THEN IF s.isRunning THEN [s EXCEPT !.isRunning = FALSE, !.stopping = TRUE] ELSE s
    ELSE [s EXCEPT !.workerRestartAttempts = @ + 1, !.restarting = @ + 1]

\* _handleWorkerError up to its first await: at the cap it calls stop(),
\* else it counts the restart and awaits the old worker's termination.
HandleWorkerError(s) ==
    IF s.workerRestartAttempts >= s.maxWorkerRestarts
    THEN IF s.isRunning THEN [s EXCEPT !.isRunning = FALSE, !.stopping = TRUE] ELSE s
    ELSE [s EXCEPT !.workerRestartAttempts = @ + 1, !.restarting = @ + 1]

\* ------------------------------------------------------------------ sensor actions

\* start(), up to await this._initializeReader().  The caller awaits one
\* start() or stop() before it calls the next.
SensorStartCall ==
    /\ ~sensor.isRunning
    /\ ~sensor.starting
    /\ ~sensor.stopping
    /\ sensor' = [sensor EXCEPT !.isRunning = TRUE, !.frameCount = 0,
                                !.starting = TRUE]
    /\ sensorOut' = [NoHandler EXCEPT !.op = "start"]
    /\ UNCHANGED <<poolVars, worker, toWorker, fromWorker, syncVars, wsVars>>

\* start(), resumed with what the driver's open call returned: if
\* _initializeReader throws, the catch clears isRunning, emits 'error' and
\* rethrows; else _initializeWorker() spawns the worker,
\* _setupEventListeners() registers the frame listener and 'started' is
\* emitted.
SensorStartResume ==
    \E opened \in BOOLEAN :
        /\ sensor.starting
        /\ IF InitializeReaderThrows(sensor.kind, opened)
           THEN /\ sensor' = [sensor EXCEPT !.starting = FALSE, !.isRunning = FALSE]
                /\ sensorOut' = [NoHandler EXCEPT !.op = "started", !.valid = opened,
                                                  !.events = <<[name |-> "error"]>>,
                                                  !.threw = TRUE]
                /\ UNCHANGED <<worker, toWorker, fromWorker>>
           ELSE /\ sensor' = InitializeWorker(
                                 [sensor EXCEPT !.starting = FALSE,
                                                !.readerOpen = opened,
                                                !.listeners = @ + 1])
                /\ worker' = NewWorker
                /\ toWorker' = <<>>
                /\ fromWorker' = <<>>
                /\ sensorOut' = [NoHandler EXCEPT !.op = "started", !.valid = opened,
                                                  !.events = <<[name |-> "started"]>>]
        /\ UNCHANGED <<poolVars, syncVars, wsVars>>

\* The driver emits a frame of the sensor's kind and the registered
\* listeners run.  A message posted to a worker that is gone is lost.
DriverFrame ==
    \E valid \in BOOLEAN :
        /\ sensor.listeners > 0
        /\ pool.stats.hits + pool.stats.misses < MaxFrames
        /\ sensor.missedFrames < MaxFrames
        /\ sensor.frameCount < MaxFrames
        /\ Len(toWorker) + Len(fromWorker) < MaxInFlight
        /\ LET h == EmitFrame(Handled(sensor, pool, <<>>, <<>>, FALSE), valid,
                              sensor.listeners)
           IN /\ sensor' = h.sensor
              /\ pool' = h.pool
              /\ toWorker' = IF worker.up THEN toWorker \o h.posted ELSE toWorker
              /\ sensorOut' =
                     [op |-> "processFrame", valid |-> valid,
                      overflow |-> Len(sensor.frameQueue) >= sensor.maxQueueSize,
                      msg |-> "none", buf |-> NoBuf,
                      events |-> h.events, threw |-> h.threw]
        /\ UNCHANGED <<poolOut, worker, fromWorker, syncVars, wsVars>>

\* The worker thread receives the next posted message: a health check is
\* answered at once, anything else is a frame to process.
WorkerReceive ==
    /\ toWorker # <<>>
    /\ worker.up
    /\ ~worker.hung
    /\ fromWorker' = fromWorker \o WorkerAnswers(worker, Head(toWorker))
    /\ worker' = IF Head(toWorker).type = "healthCheck" THEN worker
                 ELSE WorkerOnMessage(worker, Head(toWorker))
    /\ toWorker' = Tail(toWorker)
    /\ UNCHANGED <<poolVars, sensor, sensorOut, syncVars, wsVars>>

\* Mutant of WorkerSettle: a processFrame that throws leaves isProcessing set.
WorkerSettleStuck(w, shape) ==
    IF shape.kind = "error" THEN w ELSE [w EXCEPT !.isProcessing = FALSE]

\* The finally block of BaseWorker's message handler.
WorkerSettle(w, shape) == [w EXCEPT !.isProcessing = FALSE]

\* processFrame() settles in the worker: it posts the artifact or the error
\* and clears isProcessing.
WorkerFinish ==
    \E shape \in ReplyShapes :
        /\ worker.isProcessing
        /\ worker.up
        /\ ~worker.hung
        /\ fromWorker' = Append(fromWorker,
                                [kind |-> shape.kind, type |-> shape.type,
                                 buf |-> worker.current])
        /\ worker' = WorkerSettle(worker, shape)
        /\ UNCHANGED <<poolVars, sensor, sensorOut, toWorker, syncVars, wsVars>>

\* The sensor receives the next worker reply.
SensorWorkerMessage ==
    \E windowOver \in BOOLEAN :
        /\ fromWorker # <<>>
        /\ LET m == Head(fromWorker)
               h == SensorHandleWorkerMessage(sensor, pool, m.type, windowOver)
           IN /\ sensor' = h.sensor
              /\ pool' = h.pool
              /\ sensorOut' =
                     [op |-> "workerMessage", valid |-> TRUE, overflow |-> FALSE,
                      msg |-> m.kind, buf |-> m.buf,
                      events |-> h.events, threw |-> h.threw]
        /\ fromWorker' = Tail(fromWorker)
        /\ UNCHANGED <<poolOut, worker, toWorker, syncVars, wsVars>>

\* stop(), up to await this._cleanupResources(); on a sensor that is not
\* running it returns at once.
SensorStopCall ==
    /\ ~sensor.starting
    /\ ~sensor.stopping
    /\ sensor' = IF sensor.isRunning
                 THEN [sensor EXCEPT !.isRunning = FALSE, !.stopping = TRUE]
                 ELSE sensor
    /\ sensorOut' = [NoHandler EXCEPT !.op = "stop"]
    /\ UNCHANGED <<poolVars, worker, toWorker, fromWorker, syncVars, wsVars>>

\* stop(), resumed: _cleanupResources has run; 'stopped' is emitted, or
\* 'error' and a rethrow if the cleanup threw.  A terminated worker's
\* messages are gone with it.
SensorStopResume ==
    /\ sensor.stopping
    /\ LET h == CleanupResources(sensor, pool)
           terminated == sensor.hasWorker /\ ~h.sensor.hasWorker
       IN /\ sensor' = [h.sensor EXCEPT !.stopping = FALSE]
          /\ pool' = h.pool
          /\ worker' = IF terminated
                       THEN [worker EXCEPT !.up = FALSE, !.isProcessing = FALSE]
                       ELSE worker
          /\ toWorker' = IF terminated THEN <<>> ELSE toWorker
          /\ fromWorker' = IF terminated THEN <<>> ELSE fromWorker
          /\ sensorOut' =
                 [NoHandler EXCEPT !.op = "stopped",
                                   !.events = IF h.threw THEN <<[name |-> "error"]>>
                                              ELSE <<[name |-> "stopped"]>>,
                                   !.threw = h.threw]
    /\ UNCHANGED <<poolOut, syncVars, wsVars>>

\* The worker thread dies of an uncaught exception: the 'error' listener
\* emits 'error' and runs _handleWorkerError up to its first await.
WorkerCrash ==
    /\ sensor.hasWorker
    /\ worker.up
    /\ sensor' = HandleWorkerError(sensor)
    /\ worker' = [worker EXCEPT !.up = FALSE, !.isProcessing = FALSE]
    /\ toWorker' = <<>>
    /\ fromWorker' = <<>>
    /\ sensorOut' = [NoHandler EXCEPT !.op = "workerError",
                                      !.events = <<[name |-> "error"]>>]
    /\ UNCHANGED <<poolVars, syncVars, wsVars>>

\* _handleWorkerError, resumed after await this.worker.terminate():
\* _initializeWorker() spawns the next worker.
WorkerRestart ==
    /\ sensor.restarting > 0
    /\ sensor' = InitializeWorker([sensor EXCEPT !.restarting = @ - 1])
    /\ worker' = NewWorker
    /\ toWorker' = <<>>
    /\ fromWorker' = <<>>
    /\ sensorOut' = [NoHandler EXCEPT !.op = "workerRestart"]
    /\ UNCHANGED <<poolVars, syncVars, wsVars>>

\* The health-check interval fires: this.worker.postMessage({type:
\* 'healthCheck'}), a TypeError when this.worker is null.  A hung worker
\* never reads its port, so of the messages waiting for it only the first
\* MaxInFlight are kept.
HealthCheckTick ==
    /\ sensor.healthCheck
    /\ Len(toWorker) + Len(fromWorker) < MaxInFlight \/ worker.hung
    /\ sensor.frameCount < MaxFrames
    /\ toWorker' = IF /\ sensor.hasWorker
                      /\ worker.up
                      /\ Len(toWorker) + Len(fromWorker) < MaxInFlight
                   THEN Append(toWorker, [type |-> "healthCheck", buffer |-> NoBuf])
                   ELSE toWorker
    /\ sensorOut' = [NoHandler EXCEPT !.op = "healthCheck",
                                      !.threw = ~sensor.hasWorker]
    /\ UNCHANGED <<poolVars, sensor, worker, fromWorker, syncVars, wsVars>>

\* The worker thread stops taking messages from its port without dying.
WorkerHang ==
    /\ sensor.hasWorker
    /\ worker.up
    /\ ~worker.hung
    /\ worker' = [worker EXCEPT !.hung = TRUE]
    /\ sensorOut' = [NoHandler EXCEPT !.op = "workerHang"]
    /\ UNCHANGED <<poolVars, sensor, toWorker, fromWorker, syncVars, wsVars>>

NextDepth ==
    \/ SensorStartCall
    \/ SensorStartResume
    \/ DriverFrame
    \/ WorkerReceive
    \/ WorkerFinish
    \/ SensorWorkerMessage

\* The whole life of a sensor: start, frames, worker crashes and restarts,
\* health checks, stop.
NextLife ==
    \/ SensorStartCall
    \/ SensorStartResume
    \/ DriverFrame
    \/ WorkerReceive
    \/ WorkerFinish
    \/ SensorWorkerMessage
    \/ SensorStopCall
    \/ SensorStopResume
    \/ WorkerCrash
    \/ WorkerRestart
    \/ HealthCheckTick

\* Pool configurations <<maxPoolSize, initialSize, expandSize>> of a depth
\* sensor: the four initial buffers at the cap, and room for two more.
DepthPoolConfigs == {<<4, 1, 1>>, <<MaxPool, 1, 2>>}

InitDepth ==
    /\ \E c \in DepthPoolConfigs : pool = NewPool(c[1], c[2], c[3])
    /\ poolOut = NoCall
    /\ \E q \in 1..MaxQueue : sensor = NewSensor("depth", q, MaxRestarts)
    /\ sensorOut = NoHandler
    /\ worker = NewWorker
    /\ toWorker = <<>>
    /\ fromWorker = <<>>
    /\ SyncIdle
    /\ WsIdle

SpecDepth == InitDepth /\ [][NextDepth]_vars

\* The kinds of sensor: DepthSensor, ColorSensor, IRSensor, BodySensor.
SensorKinds == {"depth", "color", "infrared", "body"}

InitLife ==
    /\ pool = NewPool(4, 1, 1)
    /\ poolOut = NoCall
    /\ \E kind \in SensorKinds : sensor = NewSensor(kind, 1, MaxRestarts)
    /\ sensorOut = NoHandler
    /\ worker = [NewWorker EXCEPT !.up = FALSE]
    /\ toWorker = <<>>
    /\ fromWorker = <<>>
    /\ SyncIdle
    /\ WsIdle

SpecLife == InitLife /\ [][NextLife]_vars

\* The life of a sensor whose worker may also hang.
NextHealth ==
    \/ NextLife
    \/ WorkerHang

\* What the event loop and the worker thread guarantee: a timer that is due
\* fires, a delivered message is handled, a resumed await runs on, a
\* processFrame of a live worker settles.  Calls of start() and stop(),
\* driver frames, crashes and hangs are up to the environment.
FairHealth ==
    /\ WF_vars(HealthCheckTick)
    /\ WF_vars(WorkerReceive)
    /\ WF_vars(WorkerFinish)
    /\ WF_vars(SensorWorkerMessage)
    /\ WF_vars(SensorStartResume)
    /\ WF_vars(SensorStopResume)
    /\ WF_vars(WorkerRestart)

SpecHealth == InitLife /\ [][NextHealth]_vars /\ FairHealth

\* ------------------------------------------------------------------ DepthSensor under a burst

\* The driver delivers a depth frame of the expected size.
ValidFrame == DriverFrame /\ sensorOut'.valid

\* A burst of valid frames: the worker takes messages from its port and
\* answers health checks, but no processFrame settles.
NextBurst ==
    \/ SensorStartCall
    \/ SensorStartResume
    \/ ValidFrame
    \/ WorkerReceive
    \/ HealthCheckTick
    \/ SensorWorkerMessage

SpecBurst == InitDepth /\ [][NextBurst]_vars

\* Valid frames delivered so far in a burst: each one either acquired a
\* buffer or was counted as missed.
Delivered == pool.stats.hits + pool.stats.misses + sensor.missedFrames

\* ------------------------------------------------------------------ BaseWorker alone

\* How many of the messages are health checks or their answers.
HealthCount(msgs) ==
    Cardinality({i \in DOMAIN msgs : msgs[i].type = "healthCheck"})

\* The parent thread posts the next frame to the worker; frames are
\* numbered in the order they are posted (sensorOut.buf is the last number).
PostFrame ==
    /\ sensorOut.buf < MaxFrames
    /\ toWorker' = Append(toWorker, [type |-> "frame", buffer |-> sensorOut.buf + 1])
    /\ sensorOut' = [sensorOut EXCEPT !.op = "post", !.buf = @ + 1]
    /\ UNCHANGED <<poolVars, sensor, worker, fromWorker, syncVars, wsVars>>

\* The parent thread posts {type: 'healthCheck'}.
PostHealthCheck ==
    /\ HealthCount(toWorker) + HealthCount(fromWorker) < MaxInFlight
    /\ toWorker' = Append(toWorker, [type |-> "healthCheck", buffer |-> NoBuf])
    /\ sensorOut' = [sensorOut EXCEPT !.op = "healthCheck"]
    /\ UNCHANGED <<poolVars, sensor, worker, fromWorker, syncVars, wsVars>>

NextWorker ==
    \/ PostFrame
    \/ PostHealthCheck
    \/ WorkerReceive
    \/ WorkerFinish

InitWorker ==
    /\ pool = NewPool(4, 1, 1)
    /\ poolOut = NoCall
    /\ DepthIdle
    /\ SyncIdle
    /\ WsIdle

\* A processFrame that was started settles, and a delivered message is
\* handled.
FairWorker ==
    /\ WF_vars(WorkerReceive)
    /\ WF_vars(WorkerFinish)

SpecWorker == InitWorker /\ [][NextWorker]_vars /\ FairWorker

\* ------------------------------------------------------------------ MultiSourceReader

\* #frameBuffer.size
BufferSize(s) == Cardinality({k \in KindSet : s.frameBuffer[k] # None})

\* What a private method leaves behind: the reader and the events emitted.
Synced(s, events) == [sync |-> s, events |-> events]

\* #handleBufferOverflow
HandleBufferOverflow(s, frameType, timestamp) ==
    Synced([s EXCEPT !.bufferOverflows = @ + 1],
           <<[name |-> "bufferOverflow", frameType |-> frameType,
              bufferSize |-> BufferSize(s), timestamp |-> timestamp]>>)

\* #bufferFrame: refuse the frame when the buffer already holds bufferSize
\* slots, else store it as the kind's slot.
BufferFrame(s, frameType, timestamp) ==
    IF BufferSize(s) >= s.bufferSize
    THEN HandleBufferOverflow(s, frameType, timestamp)
    ELSE Synced([s EXCEPT !.frameBuffer[frameType] = timestamp], <<>>)

\* #processFrameData: buffer every required kind the emission carries, in
\* the order of the configuration.
RECURSIVE ProcessFrameDataFrom(_, _, _, _)
ProcessFrameDataFrom(s, frame, timestamp, i) ==
    IF i > Len(Kinds) THEN Synced(s, <<>>)
    ELSE IF Kinds[i] \in s.required /\ Kinds[i] \in frame
    THEN LET one == BufferFrame(s, Kinds[i], timestamp)
             rest == ProcessFrameDataFrom(one.sync, frame, timestamp, i + 1)
         IN Synced(rest.sync, one.events \o rest.events)
    ELSE ProcessFrameDataFrom(s, frame, timestamp, i + 1)

ProcessFrameData(s, frame, timestamp) ==
    ProcessFrameDataFrom(s, frame, timestamp, 1)

\* Mutant of IsFrameBufferComplete: some() instead of every().
IsFrameBufferPartial(s) ==
    \E type \in s.required : s.frameBuffer[type] # None

\* #isFrameBufferComplete
IsFrameBufferComplete(s) ==
    \A type \in s.required : s.frameBuffer[type] # None

\* The slots held, as kind -> timestamp.
Slots(s) ==
    [k \in {x \in KindSet : s.frameBuffer[x] # None} |-> s.frameBuffer[k]]

\* #updateSyncStats
UpdateSyncStats(s, timestamp) ==
    [s EXCEPT !.syncedFrames = @ + 1,
              !.lastSyncDelay = timestamp - s.lastSyncTime,
              !.maxSyncDelay = Max(@, timestamp - s.lastSyncTime),
              !.lastSyncTime = timestamp]

\* #emitSynchronizedFrame: the bundle of every slot, then the slots cleared.
EmitSynchronizedFrame(s, timestamp) ==
    Synced([UpdateSyncStats(s, timestamp) EXCEPT
                !.frameBuffer = [k \in KindSet |-> None]],
           <<[name |-> "synchronizedFrame", timestamp |-> timestamp,
              frames |-> Slots(s)]>>)

\* #dropStaleFrames: delete every slot older than dropFramesAfter.
RECURSIVE DropStaleFrom(_, _, _)
DropStaleFrom(s, timestamp, i) ==
    IF i > Len(Kinds) THEN Synced(s, <<>>)
    ELSE LET k == Kinds[i]
         IN IF s.frameBuffer[k] # None
               /\ timestamp - s.frameBuffer[k] > s.dropAfter
            THEN LET rest == DropStaleFrom(
                                 [s EXCEPT !.frameBuffer[k] = None,
                                           !.droppedFrames = @ + 1],
                                 timestamp, i + 1)
                 IN Synced(rest.sync,
                           <<[name |-> "frameDropped", frameType |-> k,
                              timestamp |-> s.frameBuffer[k],
                              delay |-> timestamp - s.frameBuffer[k]]>>
                           \o rest.events)
            ELSE DropStaleFrom(s, timestamp, i + 1)

DropStaleFrames(s, timestamp) == DropStaleFrom(s, timestamp, 1)

\* The delays timestamp - slot.timestamp of the slots held.
Delays(s, timestamp) ==
    {timestamp - s.frameBuffer[k] : k \in {x \in KindSet : s.frameBuffer[x] # None}}
MaxOf(S) == CHOOSE x \in S : \A y \in S : y <= x
MinOf(S) == CHOOSE x \in S : \A y \in S : x <= y

\* Mutant of CheckSynchronization: the window test is < instead of <=.
CheckSynchronizationStrict(s, timestamp) ==
    LET a == [s EXCEPT !.syncAttempts = @ + 1]
    IN IF ~IsFrameBufferComplete(a) THEN Synced(a, <<>>)
       ELSE IF MaxOf(Delays(a, timestamp)) - MinOf(Delays(a, timestamp))
                   < a.syncWindow
       THEN EmitSynchronizedFrame(a, timestamp)
       ELSE IF MaxOf(Delays(a, timestamp)) > a.dropAfter
       THEN DropStaleFrames(a, timestamp)
       ELSE Synced(a, <<>>)

\* #checkSynchronization
CheckSynchronization(s, timestamp) ==
    LET a == [s EXCEPT !.syncAttempts = @ + 1]
    IN IF ~IsFrameBufferComplete(a) THEN Synced(a, <<>>)
       ELSE LET maxDelay == MaxOf(Delays(a, timestamp))
                minDelay == MinOf(Delays(a, timestamp))
            IN IF maxDelay - minDelay <= a.syncWindow
               THEN EmitSynchronizedFrame(a, timestamp)
               ELSE IF maxDelay > a.dropAfter
               THEN DropStaleFrames(a, timestamp)
               ELSE Synced(a, <<>>)

\* A driver emission that carries no frame object.
NullFrame == {"null"}

\* #handleMultiSourceFrame(frame); frame: the kinds the emission carries.
HandleMultiSourceFrame(s, frame, timestamp) ==
    IF ~s.running \/ frame = NullFrame THEN Synced(s, <<>>)
    ELSE LET buffered == ProcessFrameData(s, frame, timestamp)
             checked == CheckSynchronization(buffered.sync, timestamp)
         IN Synced(checked.sync, buffered.events \o checked.events)

\* #resetState
ResetState(s) ==
    [s EXCEPT !.frameBuffer = [k \in KindSet |-> None],
              !.syncedFrames = 0, !.droppedFrames = 0,
              !.lastSyncDelay = 0, !.maxSyncDelay = 0,
              !.bufferOverflows = 0, !.syncAttempts = 0,
              !.lastSyncTime = 0]

\* ------------------------------------------------------------------ synchronizer actions

\* start(); opened: what kinect.openMultiSourceReader() returned.
SyncStart ==
    \E opened \in BOOLEAN :
        /\ emission.pending = 0
        /\ sync.listeners < MaxListeners
        /\ IF sync.running
           THEN /\ sync' = sync
                /\ syncOut' = [op |-> "start", events |-> <<[name |-> "threw"]>>]
           ELSE IF ~opened
           THEN /\ sync' = ResetState(sync)
                /\ syncOut' = [op |-> "start", events |-> <<[name |-> "error"], [name |-> "threw"]>>]
           ELSE /\ sync' = [ResetState(sync) EXCEPT !.listeners = @ + 1,
                                                    !.running = TRUE]
                /\ syncOut' = [op |-> "start", events |-> <<[name |-> "started"]>>]
        /\ UNCHANGED <<poolVars, depthVars, wsVars, emission, now>>

\* stop(), up to await this.#kinect.closeMultiSourceReader().
SyncStopCall ==
    /\ emission.pending = 0
    /\ sync.running
    /\ sync' = [sync EXCEPT !.running = FALSE, !.stopping = @ + 1]
    /\ syncOut' = [op |-> "stop", events |-> <<>>]
    /\ UNCHANGED <<poolVars, depthVars, wsVars, emission, now>>

\* stop(), resumed: #resetState and 'stopped'.
SyncStopResume ==
    /\ emission.pending = 0
    /\ sync.stopping > 0
    /\ sync' = [ResetState(sync) EXCEPT !.stopping = @ - 1]
    /\ syncOut' = [op |-> "stopped",
                   events |-> <<[name |-> "stopped"]>>]
    /\ UNCHANGED <<poolVars, depthVars, wsVars, emission, now>>

\* kinect.emit('multiSourceFrame', frame): the driver starts calling the
\* registered listeners, one after the other.
DriverEmit ==
    \E frame \in (SUBSET sync.required) \cup {NullFrame} :
        /\ emission.pending = 0
        /\ sync.listeners > 0
        /\ sync.syncAttempts < MaxAttempts
        /\ emission' = [frame |-> frame, pending |-> sync.listeners]
        /\ UNCHANGED <<poolVars, depthVars, wsVars, sync, syncOut, now>>

\* One registered listener runs #handleMultiSourceFrame on the emission.
HandleFrame ==
    /\ emission.pending > 0
    /\ LET h == HandleMultiSourceFrame(sync, emission.frame, now)
       IN /\ sync' = h.sync
          /\ syncOut' = [op |-> "frame", events |-> h.events]
    /\ emission' = IF emission.pending = 1 THEN NoPending
                    ELSE [emission EXCEPT !.pending = @ - 1]
    /\ UNCHANGED <<poolVars, depthVars, wsVars, now>>

\* Time passes between two emissions.
Tick ==
    /\ emission.pending = 0
    /\ now < MaxTime
    /\ now' = now + 1
    /\ UNCHANGED <<poolVars, depthVars, wsVars, sync, syncOut, emission>>

NextSync ==
    \/ SyncStart
    \/ SyncStopCall
    \/ SyncStopResume
    \/ DriverEmit
    \/ HandleFrame
    \/ Tick

\* Configurations <<required kinds, syncWindow, dropAfter, bufferSize>>:
\* the three kinds of the tests, a window of one or two ticks, slots dropped
\* after three; the default bufferSize 5 and one equal to the number of
\* required kinds.
SyncConfigs ==
    {{"depth", "color", "body"}} \X {1, 2} \X {3} \X {3, 5}

InitSync ==
    /\ \E c \in ValidConfigs : c[1] = MaxPool /\ c[3] = 2
                               /\ pool = NewPool(c[1], c[2], c[3])
    /\ poolOut = NoCall
    /\ DepthIdle
    /\ \E c \in SyncConfigs : sync = NewReader(c[1], c[2], c[3], c[4])
    /\ syncOut = NoSync /\ emission = NoPending
    /\ now = 0
    /\ WsIdle

SpecSync == InitSync /\ [][NextSync]_vars

\* kinect.emit('multiSourceFrame', {depth}): an emission that carries only a
\* depth frame; one more of them than the buffer has room for.
DepthOnlyEmit ==
    /\ emission.pending = 0
    /\ sync.listeners > 0
    /\ sync.syncAttempts <= sync.bufferSize
    /\ emission' = [frame |-> {"depth"}, pending |-> sync.listeners]
    /\ UNCHANGED <<poolVars, depthVars, wsVars, sync, syncOut, now>>

\* A started synchronizer that receives depth frames only.
NextDepthOnly ==
    \/ SyncStart
    \/ DepthOnlyEmit
    \/ HandleFrame
    \/ Tick

SpecDepthOnly == InitSync /\ [][NextDepthOnly]_vars

\* ------------------------------------------------------------------ WebSocketService

\* this.#wss is set.
WssSet(w) == w.phase \in {"running", "closingClients"}

\* send(client, data): only while the connection is OPEN.
Send(cn, message) ==
    IF cn.state = "open" THEN [cn EXCEPT !.log = Append(@, message)] ELSE cn

\* this.emit(event, clientId, ...)
Emit(cn, event) == [cn EXCEPT !.log = Append(@, event)]

\* #closeConnection: ws.close(code, reason) starts the closing handshake of
\* an OPEN connection and does nothing on a CLOSING or CLOSED one.
CloseConnection(cn, code) ==
    IF cn.state = "open" THEN [cn EXCEPT !.state = "closing", !.code = code]
    ELSE cn

\* What a message handler leaves behind: #clients and the connection.
Served(clients, cn) == [clients |-> clients, cn |-> cn]

\* Mutant of SendRaw: a failed send closes the connection and leaves it in
\* #clients.
SendRawKeep(clients, cn, c, message, throws) ==
    IF throws THEN Served(clients, CloseConnection(cn, ABNORMAL))
    ELSE Served(clients, [cn EXCEPT !.log = Append(@, message)])

\* #sendRaw; throws: client.send(message) throws.  The catch block deletes
\* the client from #clients and closes it with ABNORMAL.
SendRaw(clients, cn, c, message, throws) ==
    IF throws THEN Served(clients \ {c}, CloseConnection(cn, ABNORMAL))
    ELSE Served(clients, [cn EXCEPT !.log = Append(@, message)])

\* #handleIdentification
HandleIdentification(clients, cn, c) ==
    Served(clients \cup {c},
           Emit(Send([cn EXCEPT !.timer = FALSE, !.clientInfo = TRUE], "welcome"),
                "clientConnected"))

\* #handleMessage; m: "identify", "other" (a parseable message of another
\* type) or "garbage" (#parseMessage throws).
HandleMessage(clients, cn, c, m) ==
    IF m = "garbage" THEN Served(clients, Send(cn, "error"))
    ELSE IF m = "identify" THEN HandleIdentification(clients, cn, c)
    ELSE IF cn.clientInfo THEN Served(clients, Emit(cn, "message"))
    ELSE Served(clients, Send(cn, "error"))

\* #handleClientDisconnect
HandleClientDisconnect(clients, cn, c) ==
    Served(clients \ {c},
           IF cn.clientInfo THEN Emit([cn EXCEPT !.timer = FALSE], "clientDisconnected")
           ELSE [cn EXCEPT !.timer = FALSE])

\* Mutant of Recipients: every open connection.
RecipientsAnyOpen(clients, cs) == {c \in Conns : cs[c].state = "open"}

\* broadcast: the clients of #clients whose readyState is OPEN.
Recipients(clients, cs) == {c \in clients : cs[c].state = "open"}

\* get isRunning
IsRunning(w) == WssSet(w)

\* get clientCount
ClientCount(w) == Cardinality(w.clients)

\* A handler may still record two entries on the connection.
Room(c) == Len(conn[c].log) + 2 <= MaxLog

\* start(): #startServer, the listen callback creates #wss.
WsStart ==
    /\ wss.phase = "stopped"
    /\ wss' = [wss EXCEPT !.phase = "running"]
    /\ UNCHANGED <<poolVars, depthVars, syncVars, conn, client>>

\* #wss 'connection': #handleConnection.
Connection ==
    \E c \in Conns :
        /\ WssSet(wss)
        /\ conn[c].state = "none"
        /\ conn' = [conn EXCEPT ![c] =
                      Send([@ EXCEPT !.state = "open", !.timer = TRUE], "identify")]
        /\ UNCHANGED <<poolVars, depthVars, syncVars, wss, client>>

\* ws 'message': #handleMessage.  ws emits the messages that arrive while
\* the connection is OPEN and while it is CLOSING (close() was called, the
\* peer has not answered yet).
ClientMessage ==
    \E c \in Conns, m \in {"identify", "other", "garbage"} :
        /\ conn[c].state \in {"open", "closing"}
        /\ Room(c)
        /\ LET h == HandleMessage(wss.clients, conn[c], c, m)
           IN /\ wss' = [wss EXCEPT !.clients = h.clients]
              /\ conn' = [conn EXCEPT ![c] = h.cn]
        /\ UNCHANGED <<poolVars, depthVars, syncVars, client>>

\* identificationTimeout fires.
IdentificationTimeout ==
    \E c \in Conns :
        /\ conn[c].timer
        /\ conn' = [conn EXCEPT ![c] =
                      CloseConnection([@ EXCEPT !.timer = FALSE], TIMEOUT)]
        /\ UNCHANGED <<poolVars, depthVars, syncVars, wss, client>>

\* ws 'error': #handleClientError.
ClientError ==
    \E c \in Conns :
        /\ conn[c].state = "open"
        /\ conn' = [conn EXCEPT ![c] =
                      CloseConnection([@ EXCEPT !.timer = FALSE], ABNORMAL)]
        /\ UNCHANGED <<poolVars, depthVars, syncVars, wss, client>>

\* ws 'close' (the peer closed, or the closing handshake ended):
\* #handleClientDisconnect.
ClientClose ==
    \E c \in Conns :
        /\ conn[c].state \in {"open", "closing"}
        /\ Room(c)
        /\ LET h == HandleClientDisconnect(wss.clients, [conn[c] EXCEPT !.state = "closed"], c)
           IN /\ wss' = [wss EXCEPT !.clients = h.clients]
              /\ conn' = [conn EXCEPT ![c] = h.cn]
        /\ UNCHANGED <<poolVars, depthVars, syncVars, client>>

\* broadcast(data)
Broadcast ==
    /\ WssSet(wss)
    /\ \A c \in Conns : Room(c)
    /\ conn' = [c \in Conns |->
                  IF c \in Recipients(wss.clients, conn) THEN Send(conn[c], "data")
                  ELSE conn[c]]
    /\ UNCHANGED <<poolVars, depthVars, syncVars, wss, client>>

\* broadcast(data) during which client.send throws for some of the clients
\* it sends to.  Deleting the current element of #clients does not disturb
\* the for...of loop over the Set.
BroadcastFailing ==
    /\ WssSet(wss)
    /\ \A c \in Conns : Room(c)
    /\ \E failing \in SUBSET Recipients(wss.clients, conn) :
        /\ failing # {}
        /\ LET sent == [c \in Recipients(wss.clients, conn) |->
                           SendRaw(wss.clients, conn[c], c, "data", c \in failing)]
           IN /\ conn' = [c \in Conns |->
                            IF c \in DOMAIN sent THEN sent[c].cn ELSE conn[c]]
              /\ wss' = [wss EXCEPT !.clients =
                            {c \in @ : c \in DOMAIN sent => c \in sent[c].clients}]
    /\ UNCHANGED <<poolVars, depthVars, syncVars, client>>

\* Mutant of CloseAllClients: the clients are closed with the protocol code.
CloseAllClientsProtocol(clients, cs) ==
    [c \in Conns |-> IF c \in clients THEN CloseConnection(cs[c], TIMEOUT) ELSE cs[c]]

\* #closeAllClients, up to its await: close(NORMAL, 'Service shutting down')
\* on every client of #clients.
CloseAllClients(clients, cs) ==
    [c \in Conns |-> IF c \in clients THEN CloseConnection(cs[c], NORMAL) ELSE cs[c]]

\* stop(), up to the await of the clients' close events in #closeAllClients.
\* With no client to await, Promise.all([]) resolves before any other event
\* is handled, and stop() goes on to #closeServer at once.
WsStopCall ==
    /\ wss.phase = "running"
    /\ wss' = IF wss.clients = {} THEN [wss EXCEPT !.phase = "closingServer"]
              ELSE [wss EXCEPT !.phase = "closingClients", !.awaited = wss.clients]
    /\ conn' = CloseAllClients(wss.clients, conn)
    /\ UNCHANGED <<poolVars, depthVars, syncVars, client>>

\* stop(), resumed when every awaited client has closed: #clients.clear(),
\* then #closeServer sets #wss to null and awaits #server.close().
WsStopClients ==
    /\ wss.phase = "closingClients"
    /\ \A c \in wss.awaited : conn[c].state = "closed"
    /\ wss' = [wss EXCEPT !.phase = "closingServer", !.clients = {}, !.awaited = {}]
    /\ UNCHANGED <<poolVars, depthVars, syncVars, conn, client>>

\* stop(), completed: the HTTP server has closed, which it does once no
\* connection is left.
WsStopServer ==
    /\ wss.phase = "closingServer"
    /\ \A c \in Conns : conn[c].state \in {"none", "closed"}
    /\ wss' = [wss EXCEPT !.phase = "stopped"]
    /\ UNCHANGED <<poolVars, depthVars, syncVars, conn, client>>

\* stop() on a service that is not running (never started, or stopped
\* before): #closeAllClients finds the clients it finds, #clients is cleared,
\* and #closeServer skips both servers, which are null.
WsStopAgain ==
    /\ wss.phase = "stopped"
    /\ conn' = CloseAllClients(wss.clients, conn)
    /\ wss' = [wss EXCEPT !.clients = {}]
    /\ UNCHANGED <<poolVars, depthVars, syncVars, client>>

NextWs ==
    \/ WsStart
    \/ Connection
    \/ ClientMessage
    \/ IdentificationTimeout
    \/ ClientError
    \/ ClientClose
    \/ Broadcast
    \/ WsStopCall
    \/ WsStopClients
    \/ WsStopServer
    \/ WsStopAgain

InitWs ==
    /\ \E c \in ValidConfigs : c[1] = MaxPool /\ c[3] = 2
                               /\ pool = NewPool(c[1], c[2], c[3])
    /\ poolOut = NoCall
    /\ DepthIdle
    /\ SyncIdle
    /\ WsIdle

SpecWs == InitWs /\ [][NextWs]_vars

\* The service with clients whose send may throw.
NextWsFail ==
    \/ NextWs
    \/ BroadcastFailing

SpecWsFail == InitWs /\ [][NextWsFail]_vars

\* ------------------------------------------------------------------ KinectService

\* #stopAllSensors, up to its await: sensor.stop() up to its own await.
StopAllSensors(s) ==
    IF s.isRunning THEN [s EXCEPT !.isRunning = FALSE, !.stopping = TRUE] ELSE s

\* #handleClientDisconnected: the sensors are stopped when the client that
\* left was the last one.
HandleClientDisconnected(s, count) ==
    IF count = 0 THEN StopAllSensors(s) ELSE s

\* A client connects and identifies: the broadcaster emits clientConnected.
SubscriberJoin ==
    \E c \in Conns :
        /\ WssSet(wss)
        /\ conn[c].state = "none"
        /\ LET h == HandleIdentification(wss.clients,
                                         [conn[c] EXCEPT !.state = "open"], c)
           IN /\ wss' = [wss EXCEPT !.clients = h.clients]
              /\ conn' = [conn EXCEPT ![c] = h.cn]
        /\ UNCHANGED <<poolVars, depthVars, syncVars, client>>

\* An identified client's connection closes: the broadcaster emits
\* clientDisconnected and KinectService runs #handleClientDisconnected.
SubscriberLeave ==
    \E c \in Conns :
        /\ conn[c].state = "open"
        /\ conn[c].clientInfo
        /\ LET h == HandleClientDisconnect(wss.clients,
                                           [conn[c] EXCEPT !.state = "closed"], c)
           IN /\ wss' = [wss EXCEPT !.clients = h.clients]
              /\ conn' = [conn EXCEPT ![c] = h.cn]
              /\ sensor' = HandleClientDisconnected(sensor, Cardinality(h.clients))
        /\ sensorOut' = [NoHandler EXCEPT !.op = "clientDisconnected"]
        /\ UNCHANGED <<poolVars, worker, toWorker, fromWorker, syncVars, client>>

\* #handleClientMessage, startSensor: an identified client's message makes
\* KinectService call sensor.start(), which it does not await.  A command
\* arrives when no earlier start() or stop() of the sensor is in progress.
ClientStartSensor ==
    /\ \E c \in Conns : conn[c].state = "open" /\ conn[c].clientInfo
    /\ SensorStartCall

\* The service and one sensor: clients come, ask for the sensor and go,
\* while the sensor's start(), stop() and worker restarts resume whenever
\* their awaits settle.
NextService ==
    \/ SubscriberJoin
    \/ SubscriberLeave
    \/ ClientStartSensor
    \/ SensorStartResume
    \/ SensorStopResume
    \/ WorkerCrash
    \/ WorkerRestart
    \/ HealthCheckTick
    \/ WorkerReceive

\* initialize(): the broadcaster is started, the sensors are constructed.
InitService ==
    /\ pool = NewPool(4, 1, 1)
    /\ poolOut = NoCall
    /\ \E kind \in SensorKinds : sensor = NewSensor(kind, 1, MaxRestarts)
    /\ sensorOut = NoHandler
    /\ worker = [NewWorker EXCEPT !.up = FALSE]
    /\ toWorker = <<>>
    /\ fromWorker = <<>>
    /\ SyncIdle
    /\ wss = [NewService EXCEPT !.phase = "running"]
    /\ conn = [c \in Conns |-> NoConn]
    /\ client = NewClient

SpecService == InitService /\ [][NextService]_vars

\* ------------------------------------------------------------------ KinectClient

\* The 'close' handler of the client's socket: connected is cleared,
\* 'disconnected' is emitted and a reconnect is scheduled after
\* reconnect.delay.
OnClose(k) ==
    [k EXCEPT !.socket = "closed", !.connected = FALSE,
              !.timer = [pending |-> TRUE, wait |-> ReconnectDelay]]

\* connect(): new WebSocket(url) and #setupWebSocketHandlers.
Connect(k) == [k EXCEPT !.socket = "connecting", !.sockets = @ + 1]

\* The connection slot of the client's current socket at the broadcaster.
Slot(k) == k.sockets

\* What the broadcaster sees when the client's socket goes away: nothing if
\* the connection was never made, else the connection's 'close'.
PeerGone(clients, cs, c) ==
    IF cs[c].state \in {"open", "closing"}
    THEN LET h == HandleClientDisconnect(clients, [cs[c] EXCEPT !.state = "closed"], c)
         IN [clients |-> h.clients, conn |-> [cs EXCEPT ![c] = h.cn]]
    ELSE [clients |-> clients, conn |-> cs]

\* The application calls connect() on a new client.
ClientConnect ==
    /\ client.socket = "none"
    /\ client' = Connect(client)
    /\ UNCHANGED <<poolVars, depthVars, syncVars, wss, conn>>

\* The broadcaster accepts the connection (#handleConnection) and the
\* socket's 'open' handler runs: a pending reconnect timeout is cleared,
\* 'connected' is emitted.
ClientOpen ==
    /\ client.socket = "connecting"
    /\ WssSet(wss)
    /\ conn[Slot(client)].state = "none"
    /\ conn' = [conn EXCEPT ![Slot(client)] =
                  Send([@ EXCEPT !.state = "open", !.timer = TRUE], "identify")]
    /\ client' = [client EXCEPT !.socket = "open", !.timer.pending = FALSE]
    /\ UNCHANGED <<poolVars, depthVars, syncVars, wss>>

\* The client's 'message' handler answers the broadcaster's identify
\* (#sendIdentification), the broadcaster handles the answer, and the
\* client's handler takes the welcome: connected is set, 'ready' emitted.
ClientIdentify ==
    /\ client.socket = "open"
    /\ ~client.connected
    /\ conn[Slot(client)].state = "open"
    /\ Room(Slot(client))
    /\ LET h == HandleMessage(wss.clients, conn[Slot(client)], Slot(client), "identify")
       IN /\ wss' = [wss EXCEPT !.clients = h.clients]
          /\ conn' = [conn EXCEPT ![Slot(client)] = h.cn]
    /\ client' = [client EXCEPT !.connected = TRUE]
    /\ UNCHANGED <<poolVars, depthVars, syncVars>>

\* The socket's 'close' without a close() of the client: the connection
\* attempt failed, or the connection was closed from the other side.
ClientLost ==
    /\ client.socket \in {"connecting", "open"}
    /\ Room(Slot(client))
    /\ LET g == PeerGone(wss.clients, conn, Slot(client))
       IN /\ wss' = [wss EXCEPT !.clients = g.clients]
          /\ conn' = g.conn
    /\ client' = OnClose(client)
    /\ UNCHANGED <<poolVars, depthVars, syncVars>>

\* disconnect(): clearTimeout, this.#ws.close(), connected cleared.
ClientDisconnect ==
    /\ client.socket # "none"
    /\ ~client.requested
    /\ client' = [client EXCEPT
                     !.timer.pending = FALSE,
                     !.socket = IF @ \in {"connecting", "open"} THEN "closing" ELSE @,
                     !.connected = FALSE,
                     !.requested = TRUE]
    /\ UNCHANGED <<poolVars, depthVars, syncVars, wss, conn>>

\* The socket's 'close' that ends the closing handshake the client began.
ClientClosed ==
    /\ client.socket = "closing"
    /\ Room(Slot(client))
    /\ LET g == PeerGone(wss.clients, conn, Slot(client))
       IN /\ wss' = [wss EXCEPT !.clients = g.clients]
          /\ conn' = g.conn
    /\ client' = OnClose(client)
    /\ UNCHANGED <<poolVars, depthVars, syncVars>>

\* Time passes for the reconnect timeout.
ClientTick ==
    /\ client.timer.pending
    /\ client.timer.wait > 0
    /\ client' = [client EXCEPT !.timer.wait = @ - 1]
    /\ UNCHANGED <<poolVars, depthVars, syncVars, wss, conn>>

\* The reconnect timeout fires: connect().
ClientReconnect ==
    /\ client.timer.pending
    /\ client.timer.wait = 0
    /\ client.sockets < MaxConns
    /\ client' = Connect([client EXCEPT !.timer.pending = FALSE])
    /\ UNCHANGED <<poolVars, depthVars, syncVars, wss, conn>>

\* One KinectClient and the broadcaster it connects to.
NextClient ==
    \/ WsStart
    \/ ClientConnect
    \/ ClientOpen
    \/ ClientIdentify
    \/ ClientLost
    \/ ClientDisconnect
    \/ ClientClosed
    \/ ClientTick
    \/ ClientReconnect
    \/ IdentificationTimeout
    \/ Broadcast

SpecClient == InitWs /\ [][NextClient]_vars

\* ------------------------------------------------------------------ claims: BufferPool

\* The distinct buffer objects of one kind.
BuffersOf(p, k) == SeqToSet(p.buffers[k]) \cup p.inUse[k]

\* C1: after every acquire and release, for each kind the in-use count plus
\* the free-list length is the number of that kind's buffers (no buffer is
\* counted twice), and the sum over the kinds is the reported poolSize.
C1_Accounting ==
    poolOut.op \in {"new", "acquire", "release"}
    => /\ \A k \in KindSet :
              InUseCount(pool, k) + Available(pool, k)
                  = Cardinality(BuffersOf(pool, k))
       /\ TotalBuffers(pool) = pool.stats.poolSize

\* C2: the number of buffers over all kinds never exceeds maxPoolSize.
C2_GlobalCap == TotalBuffers(pool) <= pool.maxPoolSize

\* C3: release(kind, buffer) with a buffer that is not in the in-use set of
\* that kind throws the untracked-buffer error and changes nothing.
C3_UntrackedRelease ==
    [][(/\ poolOut'.op = "release"
        /\ poolOut'.type \in KindSet
        /\ (poolOut'.arg = NoBuf \/ poolOut'.arg \notin pool.inUse[poolOut'.type]))
       => (poolOut'.threw = "untracked" /\ pool' = pool)]_vars

\* C3 witness: a release for one kind of a buffer that is in use for
\* another kind was refused.
C3_Witness ==
    /\ poolOut.op = "release"
    /\ poolOut.threw = "untracked"
    /\ poolOut.type \in KindSet
    /\ \E k \in KindSet \ {poolOut.type} : poolOut.arg \in pool.inUse[k]

\* No buffer is at once free and in use (for any two kinds), and no buffer
\* occurs twice in the free lists.
Exclusive(p) ==
    /\ \A k \in KindSet :
           Cardinality(SeqToSet(p.buffers[k])) = Len(p.buffers[k])
    /\ \A k, l \in KindSet : SeqToSet(p.buffers[k]) \cap p.inUse[l] = {}
    /\ \A k, l \in KindSet :
           k # l => BuffersOf(p, k) \cap BuffersOf(p, l) = {}

\* C4: a buffer has at most one holder: free lists and in-use sets are
\* disjoint, no free list holds a buffer twice, and acquire never returns
\* a buffer that is in use.
C4_ExclusiveOwnership ==
    /\ []Exclusive(pool)
    /\ [][(poolOut'.op = "acquire" /\ poolOut'.ret # NoBuf)
          => /\ \A k \in KindSet : poolOut'.ret \notin pool.inUse[k]
             /\ poolOut'.ret \in pool'.inUse[poolOut'.type]]_vars

\* C4 witness: a released buffer was acquired again while another buffer
\* of the kind is still out.
C4_Witness ==
    /\ poolOut.op = "acquire"
    /\ poolOut.ret # NoBuf
    /\ pool.stats.released > 0
    /\ Cardinality(pool.inUse[poolOut.type]) >= 2

C6_QueueBound ==
    /\ [](Len(sensor.frameQueue) <= sensor.maxQueueSize)
    /\ [][(/\ DriverFrame
           /\ sensorOut'.valid
           /\ sensor.isRunning
           /\ Len(sensor.frameQueue) >= sensor.maxQueueSize)
          => sensor'.missedFrames = sensor.missedFrames + 1]_vars

\* C7: when the sensor has handled a worker reply (artifact or error) for a
\* frame, the buffer acquired for that frame is back in the pool.
C7_BufferReturn ==
    [][(/\ SensorWorkerMessage
        /\ sensorOut'.msg \in {"artifact", "error"}
        /\ sensorOut'.buf # NoBuf)
       => sensorOut'.buf \notin pool'.inUse["depth"]]_vars

\* ------------------------------------------------------------------ claims: MultiSourceReader

\* The synchronizedFrame events of the last listener run.
Bundles == {syncOut.events[i] : i \in {j \in DOMAIN syncOut.events :
                                  syncOut.events[j].name = "synchronizedFrame"}}

\* Newest minus oldest timestamp of a non-empty kind -> timestamp function.
Spread(frames) ==
    MaxOf({frames[k] : k \in DOMAIN frames}) - MinOf({frames[k] : k \in DOMAIN frames})

\* C8: a synchronizedFrame bundle is emitted only when every required kind
\* has a buffered slot and the newest and the oldest slot timestamps are at
\* most syncWindow apart: every bundle a listener run emits carries exactly
\* the slots held before it ran or stored by it, one for every required
\* kind, within the window.
C8_SyncSafety ==
    /\ [](\A b \in Bundles :
            /\ sync.required \subseteq DOMAIN b.frames
            /\ Spread(b.frames) <= sync.syncWindow)
    /\ [][HandleFrame =>
            \A b \in {syncOut'.events[i] : i \in DOMAIN syncOut'.events} :
                b.name = "synchronizedFrame" =>
                    \A k \in DOMAIN b.frames :
                        \/ b.frames[k] = sync.frameBuffer[k]
                        \/ (k \in emission.frame /\ b.frames[k] = now)]_vars

\* A bundle of three kinds with three different timestamps was emitted.
C8_Witness ==
    \E b \in Bundles :
        /\ DOMAIN b.frames = {"depth", "color", "body"}
        /\ Cardinality({b.frames[k] : k \in DOMAIN b.frames}) = 3

\* The slots after the emission's frame has been stored (#processFrameData).
Buffered == Slots(ProcessFrameData(sync, emission.frame, now).sync)

\* The listener run handles a frame while the reader is running.
Handles == HandleFrame /\ sync.running /\ emission.frame # NullFrame

\* C9: whenever, after the emission at time t has been buffered, every
\* required kind has a slot and the timestamps are at most syncWindow apart,
\* the same listener run emits one bundle with timestamp t that holds all
\* the slots, and clears the slots.
C9_SyncProgress ==
    [][(/\ Handles
        /\ sync.required \subseteq DOMAIN Buffered
        /\ Spread(Buffered) <= sync.syncWindow)
       => /\ Len(syncOut'.events) >= 1
          /\ LET b == syncOut'.events[Len(syncOut'.events)]
             IN /\ b.name = "synchronizedFrame"
                /\ b.timestamp = now
                /\ b.frames = Buffered
          /\ Cardinality({i \in DOMAIN syncOut'.events :
                            syncOut'.events[i].name = "synchronizedFrame"}) = 1
          /\ \A k \in KindSet : sync'.frameBuffer[k] = None
          /\ sync'.syncedFrames = sync.syncedFrames + 1
          /\ sync'.lastSyncTime = now]_vars

\* The example of the specification, scaled: depth, color and body one tick
\* apart with a window of two ticks gave one bundle at the time of body.
C9_Witness ==
    /\ sync.syncWindow = 2
    /\ \E b \in Bundles :
        /\ b.timestamp = 2
        /\ b.frames = [k \in {"depth", "color", "body"} |->
                         IF k = "depth" THEN 0 ELSE IF k = "color" THEN 1 ELSE 2]
    /\ \A k \in KindSet : sync.frameBuffer[k] = None

\* C10: whenever a listener run at time t emits no bundle, no slot older
\* than dropFramesAfter is left, also when a required kind is missing.
C10_StaleDrop ==
    [][(Handles /\ \A i \in DOMAIN syncOut'.events :
                        syncOut'.events[i].name # "synchronizedFrame")
       => \A k \in KindSet :
            sync'.frameBuffer[k] # None => now - sync'.frameBuffer[k] <= sync.dropAfter]_vars

\* ------------------------------------------------------------------ claims: WebSocketService

\* The positions of a message or event in a connection's log.
At(c, entry) == {i \in DOMAIN conn[c].log : conn[c].log[i] = entry}

\* C11: a connection that sends a message other than identify before it has
\* identified is closed with code 1002, and welcome is never sent on it
\* afterwards (the error reply marks the rejected message in the log).
C11_ProtocolViolation ==
    /\ [][\A c \in Conns :
            (/\ ClientMessage
             /\ conn[c].state = "open" /\ ~conn[c].clientInfo
             /\ conn'[c] # conn[c] /\ ~conn'[c].clientInfo)
            => (conn'[c].state \in {"closing", "closed"} /\ conn'[c].code = TIMEOUT)]_vars
    /\ [](\A c \in Conns : \A i \in At(c, "error"), j \in At(c, "welcome") :
            i < j => \E k \in At(c, "welcome") : k < i)

C13_HandshakeOrder ==
    \A c \in Conns :
        /\ conn[c].log # <<>> => conn[c].log[1] = "identify"
        /\ At(c, "welcome") # {} => conn[c].clientInfo
        /\ \A j \in At(c, "data") \cup At(c, "clientConnected") :
             \E i \in At(c, "welcome") : i < j

\* C14: a connection that has not identified when its identification timer
\* fires is closed with code 1002, never counts as a client and gets no
\* clientDisconnected event; the timer is never pending on a connection that
\* has identified or closed.
C14_IdentificationTimeout ==
    /\ [][\A c \in Conns :
            (IdentificationTimeout /\ conn[c].timer /\ ~conn'[c].timer)
            => (conn'[c].state = "closing" /\ conn'[c].code = TIMEOUT)]_vars
    /\ [](\A c \in Conns :
            /\ conn[c].code = TIMEOUT
               => (c \notin wss.clients /\ At(c, "clientDisconnected") = {})
            /\ conn[c].timer => (~conn[c].clientInfo /\ conn[c].state = "open"))


\* ------------------------------------------------------------------ claims: sensor lifecycle

\* C15 (worker restart cap): the restart counter never exceeds
\* maxWorkerRestarts; a worker crash emits 'error'; while the counter is
\* below the cap the crash leaves isRunning as it was, counts one restart and
\* leaves one restart pending; at the cap it leaves the sensor not running
\* and the counter alone; every pending restart, when it resumes, gives the
\* sensor a fresh worker.
C15_RestartCap ==
    /\ [](sensor.workerRestartAttempts <= sensor.maxWorkerRestarts)
    /\ [][/\ WorkerCrash =>
                /\ sensorOut'.events = <<[name |-> "error"]>>
                /\ IF sensor.workerRestartAttempts < sensor.maxWorkerRestarts
                   THEN /\ sensor'.isRunning = sensor.isRunning
                        /\ sensor'.workerRestartAttempts =
                               sensor.workerRestartAttempts + 1
                        /\ sensor'.restarting = sensor.restarting + 1
                   ELSE /\ ~sensor'.isRunning
                        /\ sensor'.workerRestartAttempts =
                               sensor.workerRestartAttempts
                        /\ sensor'.restarting = sensor.restarting
          /\ WorkerRestart =>
                /\ sensor'.hasWorker
                /\ worker' = NewWorker
                /\ sensor'.isRunning = sensor.isRunning]_vars

\* C15 witness: the crash after maxWorkerRestarts restarts has just stopped
\* a running sensor whose worker had been respawned each time.
C15_Witness ==
    /\ sensorOut.op = "workerError"
    /\ sensor.workerRestartAttempts = sensor.maxWorkerRestarts
    /\ sensor.restarting = 0
    /\ ~sensor.isRunning
    /\ sensor.stopping


\* C17 (restart counter reset): when start() has just completed successfully
\* the worker restart counter is 0.
C17_CounterReset ==
    (sensorOut.op = "started" /\ ~sensorOut.threw)
        => sensor.workerRestartAttempts = 0


\* C18 (driver refusal on start): when start() resumes with a falsy result of
\* the driver's open call, it throws to its caller, the sensor is left not
\* running, and neither a worker is spawned nor a frame listener
\* registered.
C18_DriverRefusal ==
    [][(SensorStartResume /\ ~sensorOut'.valid) =>
           /\ sensorOut'.threw
           /\ ~sensor'.isRunning
           /\ sensor'.hasWorker = sensor.hasWorker
           /\ worker' = worker
           /\ sensor'.listeners = sensor.listeners]_vars


\* C19 (sensor stop): when stop() completes, the driver stream is closed, the
\* frame queue is empty and none of the buffers it held is still lent by
\* the pool, the worker reference is null and the sensor is not running; a
\* stop() on a sensor that is not running changes nothing.
C19_SensorStop ==
    [][/\ SensorStopResume =>
              /\ ~sensor'.readerOpen
              /\ sensor'.frameQueue = <<>>
              /\ \A i \in DOMAIN sensor.frameQueue :
                     sensor.frameQueue[i] \notin pool'.inUse["depth"]
              /\ ~sensor'.hasWorker
              /\ ~sensor'.isRunning
              /\ ~sensorOut'.threw
       /\ (SensorStopCall /\ ~sensor.isRunning) =>
              UNCHANGED <<sensor, pool, worker, toWorker, fromWorker>>]_vars


\* C20 (quiescence after stop): once stop() has completed on a sensor and
\* until start() is called again, no handler of the sensor emits 'frame',
\* whatever driver frame or worker reply it receives.
C20_Quiescence ==
    [][(/\ ~sensor.isRunning
        /\ ~sensor.starting
        /\ ~sensor.stopping
        /\ SensorWorkerMessage \/ DriverFrame)
           => \A i \in DOMAIN sensorOut'.events :
                  sensorOut'.events[i].name # "frame"]_vars


\* C16 (health-check supervision): whenever the worker of a running sensor
\* hangs, eventually the worker is replaced by a fresh one (or is no longer
\* hung) or the sensor is no longer running.
C16_HealthSupervision ==
    (sensor.isRunning /\ sensor.hasWorker /\ worker.up /\ worker.hung)
        ~> (~worker.hung \/ ~sensor.isRunning)


\* ------------------------------------------------------------------ claims: BaseWorker

\* The numbers of the frames the worker has replied to, in reply order.
RepliedFrames ==
    LET frames == SelectSeq(fromWorker, LAMBDA r : r.kind # "health")
    IN [i \in DOMAIN frames |-> frames[i].buf]

\* The next message for the worker is a frame.
FrameArrives == toWorker # <<>> /\ Head(toWorker).type # "healthCheck"

\* C21 (worker single-slot backpressure): a frame that arrives while
\* isProcessing is set leaves the worker and its replies as they were; the
\* frames replied to are in the order they were posted, each at most once,
\* and the frame in flight is later than all of them.
C21_SingleSlot ==
    /\ [](/\ \A i, j \in DOMAIN RepliedFrames :
                 i < j => RepliedFrames[i] < RepliedFrames[j]
          /\ worker.isProcessing =>
                 \A i \in DOMAIN RepliedFrames : RepliedFrames[i] < worker.current)
    /\ [][(WorkerReceive /\ FrameArrives /\ worker.isProcessing) =>
              /\ worker' = worker
              /\ fromWorker' = fromWorker]_vars

\* C21 witness: frames 1, 2 and 3 were posted, 2 arrived while 1 was in
\* flight and was dropped, 1 and 3 were replied to.
C21_Witness ==
    /\ RepliedFrames = <<1, 3>>
    /\ toWorker = <<>>
    /\ ~worker.isProcessing

C24_Backpressure ==
    (sensor.isRunning /\ Delivered >= sensor.maxQueueSize) =>
        /\ sensor.missedFrames = Delivered - sensor.maxQueueSize
        /\ Len(sensor.frameQueue) = sensor.maxQueueSize


\* C25 (invalid frame size): a frame of the wrong size delivered to a running
\* sensor emits one error and nothing else happens: the queue, the messages
\* posted to the worker, the pool's lent buffers and currentBuffer are as
\* before.
C25_InvalidFrame ==
    [][(DriverFrame /\ ~sensorOut'.valid /\ sensor.isRunning) =>
           /\ sensorOut'.events = <<ErrorEvent>>
           /\ ~sensorOut'.threw
           /\ sensor'.frameQueue = sensor.frameQueue
           /\ toWorker' = toWorker
           /\ pool'.inUse = pool.inUse
           /\ sensor'.currentBuffer = sensor.currentBuffer]_vars


\* ------------------------------------------------------------------ claims: BufferPool resize

\* C26 (resize shrink): after a successful resize(n) the pool holds at most
\* n buffers, free and in use together, and its poolSize says so.
C26_ResizeShrink ==
    (poolOut.op = "resize" /\ poolOut.threw = "none") =>
        /\ pool.stats.poolSize <= poolOut.arg
        /\ TotalBuffers(pool) <= poolOut.arg


\* C27 (resize rejection): resize(n) with n below 1 or below the number of
\* buffers in use over all kinds throws, leaves the pool as it was and emits
\* nothing; any other resize(n) succeeds, makes n the cap that acquire reads
\* and keeps every in-use set.
C27_ResizeRejection ==
    [][PoolResize =>
           IF poolOut'.arg < 1 \/ SumInUse(pool, 1) > poolOut'.arg
           THEN /\ poolOut'.threw # "none"
                /\ poolOut'.events = <<>>
                /\ pool' = pool
           ELSE /\ poolOut'.threw = "none"
                /\ pool'.maxPoolSize = poolOut'.arg
                /\ pool'.inUse = pool.inUse]_vars

\* C27 witness: a resize below the number of buffers in use was rejected.
C27_Witness ==
    /\ poolOut.op = "resize"
    /\ poolOut.threw = "tooSmall"
    /\ poolOut.arg >= 1
    /\ SumInUse(pool, 1) > poolOut.arg


\* ------------------------------------------------------------------ claims: synchronizer overflow

\* The listener run reported a bufferOverflow for kind k.
Refused(events, k) ==
    \E i \in DOMAIN events :
        events[i].name = "bufferOverflow" /\ events[i].frameType = k

\* C28 (synchronizer overflow rule): a listener run refuses a frame of kind k
\* only if k has no slot yet; an emission that carries the single kind k is
\* refused exactly when k has no slot and the buffer already holds
\* bufferSize slots.
C28_OverflowRule ==
    [][(HandleFrame /\ sync.running /\ emission.frame # NullFrame) =>
           /\ \A k \in emission.frame :
                  Refused(syncOut'.events, k) => sync.frameBuffer[k] = None
           /\ \A k \in sync.required :
                  emission.frame = {k} =>
                      (Refused(syncOut'.events, k) <=>
                           /\ sync.frameBuffer[k] = None
                           /\ BufferSize(sync) + 1 > sync.bufferSize)]_vars


\* C29 (synchronizer overflow as tested): with required kinds depth, color
\* and body and bufferSize 5, once bufferSize + 1 emissions that each carried
\* only a depth frame have been handled, a bufferOverflow has been reported.
C29_OverflowReachable ==
    (sync.running /\ sync.listeners = 1
        /\ sync.required = {"depth", "color", "body"}
        /\ sync.bufferSize = 5
        /\ sync.syncAttempts >= sync.bufferSize + 1)
        => sync.bufferOverflows >= 1


\* ------------------------------------------------------------------ claims: broadcast send failure

Identified == {c \in Conns : conn[c].clientInfo /\ conn[c].state \in {"open", "closing"}}

\* C31 (subscriber count): clientCount is the number of connections that
\* have completed identification and have not yet closed.
C31_SubscriberCount == ClientCount(wss) = Cardinality(Identified)


\* C32 (broadcaster shutdown): stop() closes every open subscriber with
\* code 1000, goes on to the listener only when each of the subscribers it
\* closed has closed, has isRunning false and clientCount 0 when it has
\* completed, and changes nothing when called again on the stopped service.
C32_Shutdown ==
    /\ [][WsStopCall =>
            \A c \in Identified :
                conn[c].state = "open"
                    => (conn'[c].state = "closing" /\ conn'[c].code = NORMAL)]_vars
    /\ [][WsStopClients => \A c \in wss.awaited : conn[c].state = "closed"]_vars
    /\ [][WsStopAgain => UNCHANGED <<wss, conn>>]_vars
    /\ [](wss.phase = "stopped" => (~IsRunning(wss) /\ ClientCount(wss) = 0))

\* stop() has completed on a service that had closed two subscribers with
\* code 1000.
C32_Witness ==
    /\ wss.phase = "stopped"
    /\ \A c \in Conns :
        /\ conn[c].clientInfo /\ conn[c].state = "closed"
        /\ conn[c].code = NORMAL


\* ------------------------------------------------------------------ claims: KinectService

\* No call of the sensor is in progress: every start(), stop() and worker
\* restart has run to its end.
Settled == ~sensor.starting /\ ~sensor.stopping /\ sensor.restarting = 0

\* C33 (no subscribers, no work): while no subscriber is connected, once the
\* calls in progress have run to their end the sensor is not running and has
\* no live worker and no frame listener.
C33_NoSubscribersNoWork ==
    (ClientCount(wss) = 0 /\ Settled)
        => (~sensor.isRunning /\ ~sensor.hasWorker /\ ~worker.up
            /\ sensor.listeners = 0)


\* ------------------------------------------------------------------ claims: DepthSensor buffers

\* C34 (no double release in the depth sensor): every buffer the sensor may
\* still release, the ones in its frame queue and its current buffer, is a
\* buffer it holds from the pool; so no release of the sensor meets an
\* untracked buffer and no released buffer stays in the frame queue.
C34_NoDoubleRelease ==
    /\ \A i \in DOMAIN sensor.frameQueue :
           sensor.frameQueue[i] \in pool.inUse["depth"]
    /\ sensor.currentBuffer # NoBuf => sensor.currentBuffer \in pool.inUse["depth"]


\* ------------------------------------------------------------------ claims: BufferPool clear

\* C35 (rejected clear is atomic): a clear() that throws leaves every
\* kind's free list and in-use set and all counters as they were.
C35_RejectedClearAtomic ==
    [][(PoolClear /\ poolOut'.threw # "none") => pool' = pool]_vars


\* ------------------------------------------------------------------ claims: frame events

\* C36 (frame events only for artifacts): when a sensor handles a worker
\* reply that is not an artifact (a health-check answer or an error reply),
\* it emits no 'frame' event and leaves its frame counter alone.
C36_FramesOnlyForArtifacts ==
    [][(SensorWorkerMessage /\ Head(fromWorker).kind # "artifact") =>
           /\ \A i \in DOMAIN sensorOut'.events :
                  sensorOut'.events[i].name # "frame"
           /\ sensor'.frameCount = sensor.frameCount]_vars


\* ------------------------------------------------------------------ claims: orphan workers

\* C37 (no orphan worker): a sensor that is not running, with no start() or
\* stop() in progress, has no live worker and no health-check timer; and no
\* worker is spawned while the sensor's previous worker is still alive.
C37_NoOrphanWorker ==
    /\ []((~sensor.isRunning /\ ~sensor.starting /\ ~sensor.stopping)
            => (~sensor.hasWorker /\ ~worker.up /\ ~sensor.healthCheck))
    /\ [][((WorkerRestart \/ SensorStartResume) /\ sensor'.hasWorker
              /\ ~sensorOut'.threw)
            => ~worker.up]_vars


\* ------------------------------------------------------------------ claims: synchronizer restart

\* C38 (synchronizer restart handles each emission once): an emission of
\* the driver to a running synchronizer is handled by exactly one listener
\* run, which (when the emission carries a frame object) raises
\* syncAttempts by one and emits at most one bundle.
C38_EmissionOnce ==
    /\ [][(DriverEmit /\ sync.running) => emission'.pending = 1]_vars
    /\ [][(HandleFrame /\ sync.running /\ emission.frame # NullFrame) =>
              /\ emission'.pending = 0
              /\ sync'.syncAttempts = sync.syncAttempts + 1
              /\ Cardinality({i \in DOMAIN syncOut'.events :
                                 syncOut'.events[i].name = "synchronizedFrame"}) <= 1]_vars


\* ------------------------------------------------------------------ claims: connection events

\* C39 (connect/disconnect events pair up): for every connection
\* clientConnected is emitted at most once, clientDisconnected at most once,
\* and clientDisconnected only after clientConnected.
C39_EventsPairUp ==
    \A c \in Conns :
        /\ Cardinality(At(c, "clientConnected")) <= 1
        /\ Cardinality(At(c, "clientDisconnected")) <= 1
        /\ \A j \in At(c, "clientDisconnected") :
               \E i \in At(c, "clientConnected") : i < j


\* ------------------------------------------------------------------ claims: KinectClient

\* C40 (client disconnect is final): once disconnect() has been called the
\* client creates no further socket; a close that the client did not ask
\* for leaves exactly one reconnect pending, which fires when
\* reconnect.delay has passed.
C40_DisconnectFinal ==
    /\ [][client.requested => client'.sockets = client.sockets]_vars
    /\ [][ClientLost =>
              client'.timer = [pending |-> TRUE, wait |-> ReconnectDelay]]_vars
    /\ [][ClientReconnect => client.timer.wait = 0]_vars

====
